---- MODULE Spec2Model ----
(***************************************************************************)
(* Model of src/worker.js: a caching proxy in front of TheSportsDB.        *)
(*                                                                         *)
(* A request is handled by handleRequest, an async function.  Each action  *)
(* below is one synchronous run of that function between two awaits, the   *)
(* loop of lines 45-57 one iteration at a time, each reading the clock:    *)
(*   Options      lines 8-9, 142-160 (handleOptions, synchronous)          *)
(*   Receive      lines 18-27  (up to `await cache.match`)                 *)
(*   CacheMatch   lines 27-44 / 102-105 (hit, or enter the loop, or call)  *)
(*   IssueDate    lines 45-57 (one iteration of the loop; the last one     *)
(*                runs on to `await Promise.allSettled`, line 60)          *)
(*   FetchThen    lines 52-53  (fetch resolved: response.json() is called) *)
(*   Settle*      lines 52-55  (the body parsed, or the .catch)            *)
(*   Aggregate    lines 60-99  (after `await Promise.allSettled`)          *)
(*   DayFetch     lines 105-106 (after `await fetch`, up to `await json()`)*)
(*   SingleDay    lines 106-125 (after `await apiResponse.json()`, or the  *)
(*                catch)                                                   *)
(*   CachePut     the background cache.put registered with waitUntil       *)
(*   Finish       the runtime retiring the event once waitUntil is empty   *)
(*   Tick         wall-clock time passing                                  *)
(*                                                                         *)
(* Upstream payloads are JSON objects whose `events` member is an array,   *)
(* null or absent (the documented shapes of eventsday.php).                *)
(***************************************************************************)
EXTENDS Integers, Sequences, FiniteSets, TLC

VARIABLES
    incoming,   \* requests the clients have not sent yet, in the order they will arrive
    pc,         \* pc[r]: where handleRequest stands for request r
    method,     \* method[r]: the request method ("none" before the request arrives)
    reqHeaders, \* reqHeaders[r]: which of the three preflight headers the request has
    url,        \* url[r]: the query of the request URL, a sequence of <<name, value>>
    path,       \* path[r]: "none" | "hit" | "range" | "day" | "options"
    wire,       \* wire[r]: one entry per upstream call issued, with the answer received
    results,    \* results[r]: the slots of datePromises / Promise.allSettled
    response,   \* response[r]: the Response handleRequest returned
    put,        \* put[r]: the cache.put started by the handler
    cache,      \* caches.default: key -> stored entry
    clock,      \* seconds since the first request
    overtaken,  \* overtaken[r]: a per-date call settled before one issued earlier
    upstream,   \* answer kinds on offer for a per-date call answered at any moment
    dayUpstream, \* answer kinds the upstream produces for a single-day call
    solo,       \* indices of the per-date calls the upstream answers at any moment
    rest,       \* answers to the other calls, which are answered in the order issued
    methods,    \* the methods the clients send, besides OPTIONS
    arrival     \* time of day (seconds after midnight UTC) of the first request

vars == <<incoming, pc, method, reqHeaders, url, path, wire, results, response, put, cache,
          clock, overtaken, upstream, dayUpstream, solo, rest, methods, arrival>>

----------------------------------------------------------------------------
(* Bounds of the model *)

\* Up to VariedDates per-date calls of a request are answered at any moment and with
\* any answer; the other calls are answered one by one in the order issued.
VariedDates == 2
\* The clock stops advancing at MaxClock seconds, in steps of TickStep.
MaxClock == 3600
TickStep == 1800
\* Times of day (seconds after midnight UTC) at which the first request arrives:
\* half an hour before midnight, and at noon.
FirstRequestAt == 84600
Midday == 43200

(* Program constants *)
DaysDefault == 7
DaysMax == 30
MaxAgeRange == 3600
MaxAgeDay == 1800

Reqs == {"r1", "r2"}

Null == "<null>"
Day1 == "2024-05-01"

NotADate == "notadate"

\* Query strings the clients send:
\*   /, /?variety=max, /?variety=min, /?day=2024-05-01, /?day=, /?day=notadate,
\*   /?day=2024-05-01&variety=max, /?variety=max&day=2024-05-01
Queries ==
    { <<>>,
      << <<"variety", "max">> >>,
      << <<"variety", "min">> >>,
      << <<"day", Day1>> >>,
      << <<"day", "">> >>,
      << <<"day", NotADate>> >>,
      << <<"day", Day1>>, <<"variety", "max">> >>,
      << <<"variety", "max">>, <<"day", Day1>> >> }

\* The request headers handleOptions looks at (lines 144-146)
PreflightHeaders ==
    {"Origin", "Access-Control-Request-Method", "Access-Control-Request-Headers"}

----------------------------------------------------------------------------
(* Values *)

Ids == {"E1", "E2"}

Event(id, name, d) == [idEvent |-> id, strEvent |-> name, dateEvent |-> d]

\* A parsed upstream payload: `events` is an array, or null/absent (eventsNull).
NoData == [eventsNull |-> TRUE, events |-> <<>>]
DataOf(evs) == [eventsNull |-> FALSE, events |-> evs]

\* What came back on the wire for one upstream call.
NoAnswer == [kind |-> "pending", status |-> 0, json |-> FALSE, data |-> NoData]
\* fetch() resolved with the status line and headers; the body is still on its way.
Headers(status) == [kind |-> "headers", status |-> status, json |-> FALSE, data |-> NoData]
NetErr   == [kind |-> "neterr",  status |-> 0, json |-> FALSE, data |-> NoData]
Http(status, json, data) == [kind |-> "http", status |-> status, json |-> json, data |-> data]

\* The event lists the upstream can return for date d.
EventLists(d) ==
    [ empty |-> <<>>,
      one   |-> << Event("E1", "a", d) >>,
      dup   |-> << Event("E1", "a", d), Event("E1", "b", d) >>,
      two   |-> << Event("E2", "a", d), Event("E1", "b", d) >> ]

AnswerKinds == {"neterr", "badbody", "null", "errjson", "empty", "one", "dup", "two", "errlist"}

\* The answer of kind k to the call for date d.
Answer(k, d) ==
    CASE k = "neterr"  -> NetErr                                   \* fetch rejects
      [] k = "badbody" -> Http(500, FALSE, NoData)                 \* 500, HTML body
      [] k = "null"    -> Http(200, TRUE, NoData)                  \* {"events": null}
      [] k = "errjson" -> Http(500, TRUE, NoData)                  \* 500, {"error": ...}
      [] k = "errlist" -> Http(500, TRUE, DataOf(EventLists(d).one))
      [] OTHER         -> Http(200, TRUE, DataOf(EventLists(d)[k]))

NoMeta == [totalFetched |-> 0, uniqueEvents |-> 0, daysFetched |-> 0, cacheTime |-> 0]

\* A Response: status, body (shape + JSON members), and its headers: Content-Type,
\* the three of corsHeaders, Allow, Cache-Control max-age (0: no Cache-Control).
NoResp == [status |-> 0, shape |-> "none", data |-> NoData, meta |-> NoMeta,
           contentType |-> FALSE, cors |-> FALSE, allow |-> FALSE, maxAge |-> 0]

NoPut == [state |-> "none", tracked |-> FALSE, key |-> <<>>, resp |-> NoResp]

NoEntry == [present |-> FALSE, resp |-> NoResp, storedAt |-> 0]

----------------------------------------------------------------------------
(* Pure parts of handleRequest *)

\* url.searchParams.get(name): the first value of that name, or null (lines 22-23)
RECURSIVE SearchParamsGet(_, _)
SearchParamsGet(q, name) ==
    IF q = <<>> THEN Null
    ELSE IF Head(q)[1] = name THEN Head(q)[2]
    ELSE SearchParamsGet(Tail(q), name)

\* The query with its parameters in a canonical order (day before variety).
SortedQuery(q) ==
    SelectSeq(q, LAMBDA p : p[1] = "day") \o SelectSeq(q, LAMBDA p : p[1] # "day")

cacheKeySorted(q) == SortedQuery(q)

\* new Request(url.toString(), request): keyed by the URL as written (line 26)
cacheKeyMutant(q) == <<>>
cacheKey(q) == q

NoDayMutant(q) == SearchParamsGet(q, "day") = Null

\* `!day` (line 33)
NoDay(q) == SearchParamsGet(q, "day") \in {Null, ""}

\* line 38
daysToFetchMutant(variety) == IF variety = Null THEN DaysDefault ELSE DaysMax
daysToFetch(variety) == IF variety = "max" THEN DaysMax ELSE DaysDefault

\* getTodaysDate / new Date() as a day number (lines 35, 46, 165-171); the first
\* request arrives `arrival` seconds after midnight UTC
Today(now) == (arrival + now) \div 86400

\* const date = new Date(); date.setDate(date.getDate() + i);
\* toISOString().slice(0, 10) (lines 46-48), with `now` the clock as that iteration
\* reads it.
dateStr(now, i) == Today(now) + i

\* A slot of datePromises before its call settled.
PendingSlot(d) == [status |-> "pending", success |-> FALSE, data |-> NoData, date |-> d]

\* fetch(apiUrl).then(r => r.json()).then(data => ({success: true, ...}))
\*              .catch(error => ({success: false, ...}))       (lines 52-55)
FetchResult(a, d) ==
    IF a.kind = "http" /\ a.json
    THEN [status |-> "fulfilled", success |-> TRUE,  data |-> a.data, date |-> d]
    ELSE [status |-> "fulfilled", success |-> FALSE, data |-> NoData, date |-> d]

\* Promise.allSettled keeps each value in the slot of the promise it came from (line 60)
SettleSlotMutant(res, i, v) ==
    LET first == CHOOSE j \in 1..Len(res) :
                    /\ res[j].status = "pending"
                    /\ \A k \in 1..(j - 1) : res[k].status # "pending"
    IN [res EXCEPT ![first] = v]
SettleSlot(res, i, v) == [res EXCEPT ![i] = v]

\* line 65
CountedMutant(s) == s.status = "fulfilled" /\ s.success
Counted(s) == s.status = "fulfilled" /\ s.success /\ ~s.data.eventsNull

\* lines 63-69: allEvents, in slot order
RECURSIVE allEventsMutant(_)
allEventsMutant(res) ==
    IF res = <<>> \/ ~Counted(Head(res)) THEN <<>>
    ELSE Head(res).data.events \o allEventsMutant(Tail(res))
RECURSIVE allEvents(_)
allEvents(res) ==
    IF res = <<>> THEN <<>>
    ELSE (IF Counted(Head(res)) THEN Head(res).data.events ELSE <<>>)
         \o allEvents(Tail(res))

\* lines 63-69: successfulFetches
RECURSIVE successfulFetches(_)
successfulFetches(res) ==
    IF res = <<>> THEN 0
    ELSE (IF Counted(Head(res)) THEN 1 ELSE 0) + successfulFetches(Tail(res))

\* self.findIndex(e => e.idEvent === event.idEvent) (line 75)
findIndexMutant(self, id) ==
    CHOOSE j \in 1..Len(self) :
        /\ self[j].idEvent = id
        /\ \A k \in (j + 1)..Len(self) : self[k].idEvent # id
findIndex(self, id) ==
    CHOOSE j \in 1..Len(self) :
        /\ self[j].idEvent = id
        /\ \A k \in 1..(j - 1) : self[k].idEvent # id

\* allEvents.filter((event, index, self) => index === findIndex(...)) (lines 74-76)
RECURSIVE FilterFrom(_, _)
FilterFrom(self, index) ==
    IF index > Len(self) THEN <<>>
    ELSE (IF index = findIndex(self, self[index].idEvent) THEN << self[index] >> ELSE <<>>)
         \o FilterFrom(self, index + 1)

uniqueEvents(all) == FilterFrom(all, 1)

\* lines 80-94
RangeResponse(res, now) ==
    LET all  == allEvents(res)
        uniq == uniqueEvents(all)
    IN [status |-> 200, shape |-> "aggregate", data |-> DataOf(uniq),
        meta |-> [totalFetched |-> Len(all), uniqueEvents |-> Len(uniq),
                  daysFetched |-> successfulFetches(res), cacheTime |-> now],
        contentType |-> TRUE, cors |-> TRUE, allow |-> FALSE, maxAge |-> MaxAgeRange]

DayResponseMutant(data) ==
    [status |-> 200, shape |-> "payload",
     data |-> IF data.eventsNull THEN data ELSE DataOf(uniqueEvents(data.events)),
     meta |-> NoMeta,
     contentType |-> TRUE, cors |-> TRUE, allow |-> FALSE, maxAge |-> MaxAgeDay]

\* lines 108-114
DayResponse(data) ==
    [status |-> 200, shape |-> "payload", data |-> data, meta |-> NoMeta,
     contentType |-> TRUE, cors |-> TRUE, allow |-> FALSE, maxAge |-> MaxAgeDay]

ErrorResponseMutant ==
    [status |-> 500, shape |-> "error", data |-> NoData, meta |-> NoMeta,
     contentType |-> TRUE, cors |-> FALSE, allow |-> FALSE, maxAge |-> 0]

\* lines 121-124
ErrorResponse ==
    [status |-> 500, shape |-> "error", data |-> NoData, meta |-> NoMeta,
     contentType |-> TRUE, cors |-> TRUE, allow |-> FALSE, maxAge |-> 0]

handleOptionsMutant(h) ==
    IF "Origin" \in h
    THEN [status |-> 200, shape |-> "empty", data |-> NoData, meta |-> NoMeta,
          contentType |-> FALSE, cors |-> TRUE, allow |-> FALSE, maxAge |-> 0]
    ELSE [status |-> 200, shape |-> "empty", data |-> NoData, meta |-> NoMeta,
          contentType |-> FALSE, cors |-> FALSE, allow |-> TRUE, maxAge |-> 0]

\* handleOptions (lines 142-160): new Response(null, {headers}) has status 200
handleOptions(h) ==
    IF PreflightHeaders \subseteq h
    THEN [status |-> 200, shape |-> "empty", data |-> NoData, meta |-> NoMeta,
          contentType |-> FALSE, cors |-> TRUE, allow |-> FALSE, maxAge |-> 0]
    ELSE [status |-> 200, shape |-> "empty", data |-> NoData, meta |-> NoMeta,
          contentType |-> FALSE, cors |-> FALSE, allow |-> TRUE, maxAge |-> 0]

\* event.waitUntil(promise): the runtime keeps the event alive for it (lines 97, 117)
waitUntilMutant(p) == p
waitUntil(p) == [p EXCEPT !.tracked = TRUE]

StartPutMutant(key, resp) ==
    IF resp.shape = "aggregate" /\ resp.meta.daysFetched = 0
    THEN NoPut
    ELSE waitUntil([state |-> "pending", tracked |-> FALSE, key |-> key, resp |-> resp])

\* cache.put(cacheKey, response.clone()) started, and handed to waitUntil
StartPut(key, resp) ==
    waitUntil([state |-> "pending", tracked |-> FALSE, key |-> key, resp |-> resp])

\* cache.match: an entry is served while younger than its max-age
Fresh(e, now) == e.present /\ now - e.storedAt < e.resp.maxAge

\* The methods that reach handleRequest (lines 8-12: every method but OPTIONS).
Methods == {"GET", "HEAD", "POST"}

\* The Cache API matches and stores GET requests only: cache.match resolves with
\* undefined for a key of another method, cache.put rejects.
Cacheable(m) == m = "GET"

----------------------------------------------------------------------------
(* The environment *)

\* Answers to a single-day call under load: rejected, an HTTP 500 with a JSON body,
\* a list that repeats an event.
DayBasicKinds == {"neterr", "errjson", "dup"}

\* The upstream of the dispatcher specification: every per-date call of a fan-out
\* is answered with one event.
BasicKinds == {"one"}

\* The HTTP statuses with which a call can resolve, given the answers on offer.
StatusesOf(kinds) ==
    {Answer(k, 0).status : k \in {x \in kinds : Answer(x, 0).kind = "http"}}

\* The HTTP statuses the upstream can answer with.
Statuses == StatusesOf(AnswerKinds)

\* The call has been issued and its promise chain has not settled.
Unsettled(a) == a.kind \in {"pending", "headers"}

\* Answer a can follow what the call has shown so far: a rejection comes instead of
\* the response, a body comes after the status line it belongs to.
Follows(a, sofar) ==
    IF a.kind = "neterr" THEN sofar.kind = "pending"
    ELSE sofar.kind = "headers" /\ sofar.status = a.status

\* Under load every call is answered in the order issued.
BasicSolo == {}

\* A week in which every kind of day occurs.
MixedWeek == <<"one", "empty", "errlist", "neterr", "two", "null", "dup">>

\* Answers to the calls answered in the order issued, call by call (repeated when
\* the request issues more calls than the plan is long).
RestPlans == {<<"one">>, <<"null">>, <<"neterr">>, MixedWeek}

\* Every call is answered with one event.
BasicRest == <<"one">>

\* The upstream and the order of its answers: any plan for the first VariedDates
\* calls, or any single call answered at any moment among calls answered with one
\* event.
AggPlans ==
    {<<1..VariedDates, p>> : p \in RestPlans} \cup {<<{i}, BasicRest>> : i \in 1..DaysMax}

\* The answers on offer for call i.
Offers(i) == IF i \in solo THEN upstream ELSE {rest[((i - 1) % Len(rest)) + 1]}

\* The calls of a request the upstream can act on: those answered at any moment,
\* and the earliest unsettled one of those answered in the order issued.
Answerable(w) ==
    LET waiting == {j \in (1..Len(w)) \ solo : Unsettled(w[j])}
    IN (solo \cap (1..Len(w)))
         \cup {j \in waiting : \A m \in waiting : j <= m}

\* A handler is inside the loop of lines 45-57: the loop holds no await, so no other
\* callback runs until it reaches line 60; only the clock moves.
InLoop == \E r \in Reqs : pc[r] = "loop"

AllSucceededMutant(res) ==
    \A i \in 1..Len(res) : res[i].status = "fulfilled" /\ res[i].success

AllSettledMutant(res) == \E i \in 1..Len(res) : res[i].status # "pending"

\* await Promise.allSettled(promises) resumes (line 60)
AllSettled(res) == \A i \in 1..Len(res) : res[i].status # "pending"

----------------------------------------------------------------------------
(* Actions *)

\* addEventListener('fetch') -> handleRequest, up to `await cache.match` (lines 6-27)
Receive(r, m, q) ==
    /\ ~InLoop
    /\ incoming # <<>>
    /\ r = Head(incoming)
    /\ pc[r] = "idle"
    /\ m \in methods
    /\ incoming' = Tail(incoming)
    /\ method' = [method EXCEPT ![r] = m]
    /\ url' = [url EXCEPT ![r] = q]
    /\ pc' = [pc EXCEPT ![r] = "match"]
    /\ UNCHANGED <<reqHeaders, path, wire, results, response, put, cache, clock, overtaken,
                   upstream, dayUpstream, solo, rest, methods, arrival>>

\* addEventListener('fetch') -> handleOptions: answered at once (lines 6-9, 142-160)
Options(r, h) ==
    /\ ~InLoop
    /\ incoming # <<>>
    /\ r = Head(incoming)
    /\ pc[r] = "idle"
    /\ incoming' = Tail(incoming)
    /\ method' = [method EXCEPT ![r] = "OPTIONS"]
    /\ reqHeaders' = [reqHeaders EXCEPT ![r] = h]
    /\ response' = [response EXCEPT ![r] = handleOptions(h)]
    /\ path' = [path EXCEPT ![r] = "options"]
    /\ pc' = [pc EXCEPT ![r] = "responded"]
    /\ UNCHANGED <<url, wire, results, put, cache, clock, overtaken, upstream,
                   dayUpstream, solo, rest, methods, arrival>>

\* cache.match settles: a hit is returned; a miss without a day runs up to the loop,
\* a miss with a day up to `await fetch` (lines 27-44, 102-105)
CacheMatch(r) ==
    /\ ~InLoop
    /\ pc[r] = "match"
    /\ LET q   == url[r]
           e   == cache[cacheKey(q)]
       IN IF Cacheable(method[r]) /\ Fresh(e, clock)
          THEN /\ response' = [response EXCEPT ![r] = e.resp]
               /\ path' = [path EXCEPT ![r] = "hit"]
               /\ pc' = [pc EXCEPT ![r] = "responded"]
               /\ UNCHANGED <<wire, results>>
          ELSE IF NoDay(q)
          THEN /\ path' = [path EXCEPT ![r] = "range"]
               /\ pc' = [pc EXCEPT ![r] = "loop"]
               /\ UNCHANGED <<wire, results, response>>
          ELSE /\ wire' = [wire EXCEPT ![r] = << NoAnswer >>]
               /\ path' = [path EXCEPT ![r] = "day"]
               /\ pc' = [pc EXCEPT ![r] = "fetch"]
               /\ UNCHANGED <<results, response>>
    /\ UNCHANGED <<method, reqHeaders, incoming, url, put, cache, clock, overtaken,
                   upstream, dayUpstream, solo, rest, methods, arrival>>

\* One iteration of `for (let i = 0; i < daysToFetch; i++)`: the clock is read, the
\* date is built and the call is issued; after the last iteration the handler waits
\* at Promise.allSettled (lines 45-60)
IssueDate(r) ==
    /\ pc[r] = "loop"
    /\ LET i == Len(results[r])
           n == daysToFetch(SearchParamsGet(url[r], "variety"))
       IN /\ results' = [results EXCEPT ![r] = Append(@, PendingSlot(dateStr(clock, i)))]
          /\ wire' = [wire EXCEPT ![r] = Append(@, NoAnswer)]
          /\ pc' = [pc EXCEPT ![r] = IF i + 1 < n THEN "loop" ELSE "fanout"]
    /\ UNCHANGED <<method, reqHeaders, incoming, url, path, response, put, cache, clock,
                   overtaken, upstream, dayUpstream, solo, rest, methods, arrival>>

\* fetch(apiUrl) of one per-date call resolves: the first .then runs and calls
\* response.json(); the slot stays pending (lines 52-53)
FetchThen(r, i, s) ==
    /\ ~InLoop
    /\ pc[r] = "fanout"
    /\ i \in Answerable(wire[r])
    /\ wire[r][i].kind = "pending"
    /\ s \in StatusesOf(Offers(i))
    /\ wire' = [wire EXCEPT ![r][i] = Headers(s)]
    /\ UNCHANGED <<method, reqHeaders, incoming, pc, url, path, results, response, put,
                   cache, clock, overtaken, upstream, dayUpstream, solo, rest, methods, arrival>>

\* One per-date call settles: its body is parsed and the second .then runs, or the
\* fetch or the parse is rejected and the .catch runs (lines 52-55)
SettleDate(r, i, k) ==
    /\ ~InLoop
    /\ pc[r] = "fanout"
    /\ i \in Answerable(wire[r])
    /\ k \in Offers(i)
    /\ Follows(Answer(k, results[r][i].date), wire[r][i])
    /\ LET d == results[r][i].date
           a == Answer(k, d)
       IN /\ wire' = [wire EXCEPT ![r][i] = a]
          /\ results' = [results EXCEPT ![r] = SettleSlot(results[r], i, FetchResult(a, d))]
    /\ overtaken' = [overtaken EXCEPT
                       ![r] = @ \/ \E j \in 1..(i - 1) : Unsettled(wire[r][j])]
    /\ UNCHANGED <<method, reqHeaders, incoming, pc, url, path, response, put, cache, clock,
                   upstream, dayUpstream, solo, rest, methods, arrival>>

\* Promise.allSettled resolved: process, assemble, start the cache write, return (lines 60-99)
Aggregate(r) ==
    /\ ~InLoop
    /\ pc[r] = "fanout"
    /\ AllSettled(results[r])
    /\ LET resp == RangeResponse(results[r], clock)
       IN /\ response' = [response EXCEPT ![r] = resp]
          /\ put' = [put EXCEPT ![r] = StartPut(cacheKey(url[r]), resp)]
    /\ pc' = [pc EXCEPT ![r] = "responded"]
    /\ UNCHANGED <<method, reqHeaders, incoming, url, path, wire, results, cache,
                   clock, overtaken, upstream, dayUpstream, solo, rest, methods, arrival>>

\* `await fetch(apiUrl)` resolves; the handler calls apiResponse.json() and waits
\* for the body (lines 105-106)
DayFetch(r, s) ==
    /\ ~InLoop
    /\ pc[r] = "fetch"
    /\ s \in StatusesOf(dayUpstream)
    /\ wire' = [wire EXCEPT ![r] = << Headers(s) >>]
    /\ pc' = [pc EXCEPT ![r] = "json"]
    /\ UNCHANGED <<method, reqHeaders, incoming, url, path, results, response, put, cache,
                   clock, overtaken, upstream, dayUpstream, solo, rest, methods, arrival>>

\* `await apiResponse.json()` resolves and the response is built, or one of the two
\* awaits is rejected and the catch answers (lines 106-125)
SingleDay(r, k) ==
    /\ ~InLoop
    /\ pc[r] \in {"fetch", "json"}
    /\ k \in dayUpstream
    /\ Follows(Answer(k, Today(clock)), wire[r][1])
    /\ LET a == Answer(k, Today(clock))
       IN /\ wire' = [wire EXCEPT ![r] = << a >>]
          /\ IF a.kind = "http" /\ a.json
             THEN LET resp == DayResponse(a.data)
                  IN /\ response' = [response EXCEPT ![r] = resp]
                     /\ put' = [put EXCEPT ![r] = StartPut(cacheKey(url[r]), resp)]
             ELSE /\ response' = [response EXCEPT ![r] = ErrorResponse]
                  /\ UNCHANGED put
    /\ pc' = [pc EXCEPT ![r] = "responded"]
    /\ UNCHANGED <<method, reqHeaders, incoming, url, path, results, cache, clock, overtaken,
                   upstream, dayUpstream, solo, rest, methods, arrival>>

CachePutMutant(r) ==
    /\ put[r].state = "pending"
    /\ cache' = [cache EXCEPT ![put[r].key] =
                   IF @.present THEN @
                   ELSE [present |-> TRUE, resp |-> put[r].resp, storedAt |-> clock]]
    /\ put' = [put EXCEPT ![r].state = "done"]
    /\ UNCHANGED <<method, reqHeaders, incoming, pc, url, path, wire, results, response,
                   clock, overtaken, upstream, dayUpstream, solo, rest, methods, arrival>>

\* The background cache.put settles: the entry replaces whatever the key held; the
\* put of a request that is not a GET is rejected
CachePut(r) ==
    /\ put[r].state = "pending"
    /\ IF Cacheable(method[r])
       THEN /\ cache' = [cache EXCEPT ![put[r].key] =
                           [present |-> TRUE, resp |-> put[r].resp, storedAt |-> clock]]
            /\ put' = [put EXCEPT ![r].state = "done"]
       ELSE /\ put' = [put EXCEPT ![r].state = "rejected"]
            /\ UNCHANGED cache
    /\ UNCHANGED <<method, reqHeaders, incoming, pc, url, path, wire, results,
                   response, clock, overtaken, upstream, dayUpstream, solo, rest, methods, arrival>>

\* The runtime retires the event: the response was returned and no promise handed
\* to waitUntil is outstanding; work it was not told about is abandoned
Finish(r) ==
    /\ pc[r] = "responded"
    /\ ~(put[r].state = "pending" /\ put[r].tracked)
    /\ pc' = [pc EXCEPT ![r] = "finished"]
    /\ put' = [put EXCEPT ![r].state = IF @ = "pending" THEN "dropped" ELSE @]
    /\ UNCHANGED <<method, reqHeaders, incoming, url, path, wire, results, response,
                   cache, clock, overtaken, upstream, dayUpstream, solo, rest, methods, arrival>>

\* Time passes
Tick ==
    /\ clock + TickStep <= MaxClock
    /\ clock' = clock + TickStep
    /\ UNCHANGED <<method, reqHeaders, incoming, pc, url, path, wire, results, response,
                   put, cache, overtaken, upstream, dayUpstream, solo, rest, methods, arrival>>

----------------------------------------------------------------------------
(* Specifications *)

InitCommon ==
    /\ pc = [r \in Reqs |-> "idle"]
    /\ method = [r \in Reqs |-> "none"]
    /\ reqHeaders = [r \in Reqs |-> {}]
    /\ url = [r \in Reqs |-> <<>>]
    /\ path = [r \in Reqs |-> "none"]
    /\ wire = [r \in Reqs |-> <<>>]
    /\ results = [r \in Reqs |-> <<>>]
    /\ response = [r \in Reqs |-> NoResp]
    /\ put = [r \in Reqs |-> NoPut]
    /\ cache = [k \in Queries |-> NoEntry]
    /\ clock = 0
    /\ overtaken = [r \in Reqs |-> FALSE]

\* The dispatcher under load: both requests are sent and may overlap
Init ==
    /\ InitCommon
    /\ methods = {"GET"}
    /\ arrival = Midday
    /\ incoming = <<"r1", "r2">>
    /\ upstream = BasicKinds
    /\ dayUpstream = DayBasicKinds
    /\ solo = BasicSolo
    /\ rest = BasicRest

\* The aggregation in full: one request, every answer kind, any plan of answers
InitAgg ==
    /\ InitCommon
    /\ methods = {"GET"}
    /\ arrival = Midday
    /\ incoming = <<"r1">>
    /\ upstream = AnswerKinds
    /\ dayUpstream = AnswerKinds
    /\ \E p \in AggPlans : solo = p[1] /\ rest = p[2]

Next ==
    \/ \E r \in Reqs, h \in SUBSET PreflightHeaders : Options(r, h)
    \/ \E r \in Reqs, m \in Methods, q \in Queries : Receive(r, m, q)
    \/ \E r \in Reqs : CacheMatch(r)
    \/ \E r \in Reqs : IssueDate(r)
    \/ \E r \in Reqs : \E i \in Answerable(wire[r]), s \in Statuses : FetchThen(r, i, s)
    \/ \E r \in Reqs : \E i \in Answerable(wire[r]) : \E k \in Offers(i) : SettleDate(r, i, k)
    \/ \E r \in Reqs : Aggregate(r)
    \/ \E r \in Reqs, s \in Statuses : DayFetch(r, s)
    \/ \E r \in Reqs, k \in AnswerKinds : SingleDay(r, k)
    \/ \E r \in Reqs : CachePut(r)
    \/ \E r \in Reqs : Finish(r)
    \/ Tick

Spec == Init /\ [][Next]_vars

SpecAgg == InitAgg /\ [][Next]_vars

\* A step of the handling of request r: a cache operation resolves, an upstream
\* call settles, or the runtime resumes the handler.
Handling(r) ==
    \/ CacheMatch(r)
    \/ IssueDate(r)
    \/ \E i \in Answerable(wire[r]), s \in Statuses : FetchThen(r, i, s)
    \/ \E i \in Answerable(wire[r]) : \E k \in Offers(i) : SettleDate(r, i, k)
    \/ Aggregate(r)
    \/ \E s \in Statuses : DayFetch(r, s)
    \/ \E k \in AnswerKinds : SingleDay(r, k)
    \/ CachePut(r)
    \/ Finish(r)

\* Every cache lookup and cache write resolves, every upstream call issued settles,
\* and the runtime resumes a handler whose await can resume.
Fairness == WF_vars(\E r \in Reqs : Handling(r))

\* The upstream either rejects the call or answers with one event.
LiveKinds == {"neterr", "one"}

InitLive ==
    /\ InitCommon
    /\ methods = {"GET"}
    /\ arrival = Midday
    /\ incoming = <<"r1">>
    /\ upstream = LiveKinds
    /\ dayUpstream = LiveKinds
    /\ solo = 1..VariedDates
    /\ rest \in {<<"one">>, <<"neterr">>}

\* The upstream is down: every call is rejected or answered with the error page of a
\* gateway.
DownKinds == {"neterr", "badbody"}

\* The per-date calls are rejected and answered with the error page in turn.
DownRest == <<"neterr", "badbody">>

\* Both requests are sent while the upstream is down
InitDown ==
    /\ InitCommon
    /\ methods = {"GET"}
    /\ arrival = Midday
    /\ incoming = <<"r1", "r2">>
    /\ upstream = DownKinds
    /\ dayUpstream = DownKinds
    /\ solo = BasicSolo
    /\ rest = DownRest

SpecDown == InitDown /\ [][Next]_vars

\* Answers to a single-day call: rejected, or a list of events.
AnyDayKinds == {"neterr", "dup"}

\* Clients of every method: both requests are sent with any method
InitAny ==
    /\ InitCommon
    /\ methods = Methods
    /\ arrival = Midday
    /\ incoming = <<"r1", "r2">>
    /\ upstream = BasicKinds
    /\ dayUpstream = AnyDayKinds
    /\ solo = BasicSolo
    /\ rest = BasicRest

SpecAny == InitAny /\ [][Next]_vars

\* One request, sent half an hour before midnight
InitMidnight ==
    /\ InitCommon
    /\ methods = {"GET"}
    /\ arrival = FirstRequestAt
    /\ incoming = <<"r1">>
    /\ upstream = BasicKinds
    /\ dayUpstream = DayBasicKinds
    /\ solo = BasicSolo
    /\ rest = BasicRest

SpecMidnight == InitMidnight /\ [][Next]_vars

\* One request, every operation it waits for settles.
SpecLive == InitLive /\ [][Next]_vars /\ Fairness

----------------------------------------------------------------------------
(* Properties *)

Done(r) == pc[r] \in {"responded", "finished"}

RangeDone(r) == Done(r) /\ path[r] = "range"

DayDone(r) == Done(r) /\ path[r] = "day"

\* The events of the response body.
Events(r) == response[r].data.events

\* The call for slot i returned a payload the worker could parse.
Parsed(r, i) == wire[r][i].kind = "http" /\ wire[r][i].json

\* The call for slot i returned a payload with an events array.
Delivered(r, i) == Parsed(r, i) /\ ~wire[r][i].data.eventsNull

\* The call for slot i failed: network error or a non-success HTTP status.
CallFailed(r, i) == wire[r][i].kind = "neterr" \/ wire[r][i].status # 200

\* The number of events the upstream delivered over the calls i..Len(w).
RECURSIVE DeliveredCount(_, _)
DeliveredCount(w, i) ==
    IF i > Len(w) THEN 0
    ELSE (IF w[i].kind = "http" /\ w[i].json /\ ~w[i].data.eventsNull
          THEN Len(w[i].data.events) ELSE 0) + DeliveredCount(w, i + 1)

\* The first position of event e in a list.
PosIn(list, e) ==
    CHOOSE j \in 1..Len(list) : list[j] = e /\ \A k \in 1..(j - 1) : list[k] # e

\* The index, in issue order, of the call that delivered event e.
IssuedIndex(r, e) ==
    CHOOSE i \in 1..Len(wire[r]) :
        Delivered(r, i) /\ \E p \in 1..Len(wire[r][i].data.events) :
                              wire[r][i].data.events[p] = e

(* C1 *)

\* C1 as stated: of two handled GET requests with the same URL, both inside the
\* shortest TTL, one was answered without any upstream call and their bodies
\* are identical, whatever the interleaving with the background cache write.
C1_SecondAlwaysServedFromCache ==
    \A a \in Reqs : \A b \in Reqs \ {a} :
        (/\ method[a] = "GET" /\ method[b] = "GET"
         /\ Done(a) /\ Done(b) /\ url[a] = url[b] /\ clock < MaxAgeDay)
        => /\ response[a] = response[b]
           /\ (wire[a] = <<>> \/ wire[b] = <<>>)

C1_HitStep ==
    \A r \in Reqs :
        LET e == cache[url[r]]
        IN (pc[r] = "match" /\ pc'[r] # "match"
              /\ e.present /\ clock - e.storedAt < e.resp.maxAge)
           => (path'[r] = "hit" /\ response'[r] = e.resp /\ wire'[r] = <<>>)

C1_HitState ==
    \A b \in Reqs :
        path[b] = "hit"
        => /\ wire[b] = <<>>
           /\ \E a \in Reqs \ {b} :
                 /\ url[a] = url[b]
                 /\ path[a] \in {"range", "day"}
                 /\ put[a].state = "done"
                 /\ response[a].status = 200
                 /\ response[b] = response[a]

\* C1 (amended): a request whose cache lookup runs after the background write of
\* an earlier request with the same URL completed, and less than max-age seconds
\* after it, is answered with exactly the response returned to that request and
\* issues no upstream call; every request answered from the cache is such a request.
C1_ServedFromCompletedWrite == []C1_HitState /\ [][C1_HitStep]_vars

C1_Witness ==
    /\ path["r2"] = "hit"
    /\ path["r1"] = "range"
    /\ url["r1"] = url["r2"]
    /\ response["r2"] = response["r1"]
    /\ response["r1"].meta.totalFetched = DaysDefault

(* C2 *)

\* C2: in the date-range path meta.uniqueEvents <= meta.totalFetched, totalFetched is
\* the number of events before deduplication, and daysFetched is exactly the number
\* of per-date calls that succeeded.
C2_MetaCounts ==
    \A r \in Reqs :
        RangeDone(r)
        => LET m == response[r].meta
           IN /\ m.uniqueEvents <= m.totalFetched
              /\ m.totalFetched = DeliveredCount(wire[r], 1)
              /\ m.daysFetched = Cardinality({i \in 1..Len(wire[r]) : Parsed(r, i)})

(* C3 *)

\* The first delivered event with identity id, in date order then upstream order.
FirstDelivered(r, id) ==
    LET has(i) == Delivered(r, i)
                    /\ \E p \in 1..Len(wire[r][i].data.events) :
                          wire[r][i].data.events[p].idEvent = id
        i0 == CHOOSE i \in 1..Len(wire[r]) : has(i) /\ \A j \in 1..(i - 1) : ~has(j)
        l0 == wire[r][i0].data.events
        p0 == CHOOSE p \in 1..Len(l0) :
                 l0[p].idEvent = id /\ \A q \in 1..(p - 1) : l0[q].idEvent # id
    IN l0[p0]

\* C3: the events returned by the date-range path hold no identity twice, and for
\* every identity some successful date delivered, the event kept is its first
\* occurrence: earliest date, then earliest position within that date.
C3_DedupKeepsFirst ==
    \A r \in Reqs :
        RangeDone(r)
        => /\ \A p \in 1..Len(Events(r)) : \A q \in 1..Len(Events(r)) :
                 Events(r)[p].idEvent = Events(r)[q].idEvent => p = q
           /\ \A i \in 1..Len(wire[r]) :
                 Delivered(r, i)
                 => \A p \in 1..Len(wire[r][i].data.events) :
                       LET id == wire[r][i].data.events[p].idEvent
                       IN \E q \in 1..Len(Events(r)) :
                             Events(r)[q] = FirstDelivered(r, id)

C3_Witness ==
    \E r \in Reqs :
        /\ RangeDone(r)
        /\ wire[r][1].data.events = EventLists(results[r][1].date).two
        /\ wire[r][2].data.events = EventLists(results[r][2].date).dup
        /\ Delivered(r, 3)
        /\ Len(Events(r)) = 2

(* C4 *)

\* C4: whatever the order in which the per-date calls complete, the events of the
\* response are ordered by the date index of the call that delivered them and,
\* within one date, in upstream order.
C4_DateOrderNotArrivalOrder ==
    \A r \in Reqs :
        RangeDone(r)
        => \A p \in 1..Len(Events(r)) : \A q \in 1..Len(Events(r)) :
              p < q
              => LET ep == Events(r)[p]
                     eq == Events(r)[q]
                     ip == IssuedIndex(r, ep)
                     iq == IssuedIndex(r, eq)
                 IN \/ ip < iq
                    \/ /\ ip = iq
                       /\ PosIn(wire[r][ip].data.events, ep)
                             < PosIn(wire[r][ip].data.events, eq)

C4_Witness ==
    \E r \in Reqs :
        /\ RangeDone(r)
        /\ overtaken[r]
        /\ Len(Events(r)) = 2
        /\ IssuedIndex(r, Events(r)[1]) < IssuedIndex(r, Events(r)[2])

(* C5 *)

\* C5: whichever dates fail, every event identity delivered by a date that succeeded
\* is present in the response, and the request is answered as a success.
C5_FailureStaysInItsSlot ==
    \A r \in Reqs :
        RangeDone(r)
        => /\ response[r].status = 200
           /\ response[r].shape = "aggregate"
           /\ \A i \in 1..Len(wire[r]) :
                 Delivered(r, i)
                 => \A p \in 1..Len(wire[r][i].data.events) :
                       \E q \in 1..Len(Events(r)) :
                          Events(r)[q].idEvent = wire[r][i].data.events[p].idEvent

C5_Witness ==
    \E r \in Reqs :
        /\ RangeDone(r)
        /\ wire[r][1].kind = "neterr"
        /\ wire[r][2].data.events = EventLists(results[r][2].date).two
        /\ wire[r][3].kind = "neterr"
        /\ Len(Events(r)) = 2

(* C6 *)

\* C6: when every per-date call fails (network error or non-success HTTP status),
\* the date-range path answers with a success response whose events list is empty
\* and whose meta counts are all zero.
C6_AllFailedIsEmptySuccess ==
    \A r \in Reqs :
        (RangeDone(r) /\ \A i \in 1..Len(wire[r]) : CallFailed(r, i))
        => /\ response[r].status = 200
           /\ response[r].shape = "aggregate"
           /\ ~response[r].data.eventsNull
           /\ Events(r) = <<>>
           /\ response[r].meta.totalFetched = 0
           /\ response[r].meta.uniqueEvents = 0
           /\ response[r].meta.daysFetched = 0

\* C6, for the failures the per-date chain catches (rejected fetch, body that is not
\* JSON): when no call yields a payload the answer is the empty success.
C6_AllRejectedIsEmptySuccess ==
    \A r \in Reqs :
        (RangeDone(r) /\ \A i \in 1..Len(wire[r]) : ~Parsed(r, i))
        => /\ response[r].status = 200
           /\ response[r].shape = "aggregate"
           /\ ~response[r].data.eventsNull
           /\ Events(r) = <<>>
           /\ response[r].meta.totalFetched = 0
           /\ response[r].meta.uniqueEvents = 0
           /\ response[r].meta.daysFetched = 0

C6_AllRejectedReached ==
    \E r \in Reqs :
        /\ RangeDone(r)
        /\ Len(wire[r]) = DaysMax
        /\ \A i \in 1..Len(wire[r]) : ~Parsed(r, i)
        /\ wire[r][1].kind = "neterr"
        /\ wire[r][2].kind = "http"

(* C7 *)

\* C7: in the single-day path a failed upstream call (network error or non-success
\* HTTP status) ends in a 500 JSON error with CORS headers, no cache write is
\* scheduled, and no response with an error status is ever stored in the cache.
C7_DayFailureIsError ==
    /\ \A r \in Reqs :
          (DayDone(r) /\ CallFailed(r, 1))
          => /\ response[r].status = 500
             /\ response[r].shape = "error"
             /\ response[r].cors
             /\ put[r].state = "none"
    /\ \A k \in Queries : cache[k].present => cache[k].resp.status = 200

(* C8 *)

\* C8: in the date-range path a per-date call that ends with a network error or a
\* non-success HTTP status contributes no event to the response and is not counted
\* in meta.daysFetched.
C8_FailedDateContributesNothing ==
    \A r \in Reqs :
        RangeDone(r)
        => /\ \A i \in 1..Len(wire[r]) :
                 CallFailed(r, i)
                 => \A q \in 1..Len(Events(r)) :
                       Events(r)[q].dateEvent # results[r][i].date
           /\ response[r].meta.daysFetched
                 <= Cardinality({i \in 1..Len(wire[r]) : ~CallFailed(r, i)})

(* C9 *)

C9_Tracked ==
    \A r \in Reqs :
        (Done(r) /\ path[r] \in {"range", "day"} /\ response[r].status = 200)
        => /\ put[r].state \in {"pending", "done"}
           /\ put[r].tracked
           /\ put[r].key = url[r]
           /\ put[r].resp = response[r]
           /\ (pc[r] = "finished"
                 => put[r].state = "done" /\ cache[url[r]].present)

\* The step in which the handler returns a success response after a miss leaves
\* the store outstanding: the reply does not wait for it.
C9_ReturnStep ==
    \A r \in Reqs :
        (pc[r] \in {"fanout", "fetch", "json"} /\ pc'[r] = "responded"
         /\ response'[r].status = 200)
        => (put'[r].state = "pending" /\ cache' = cache)

\* C9: a miss that produced a success response has its cache store, for the key of
\* the request and the response returned, handed to waitUntil by the time the
\* handler returns; the handler returns without waiting for the store, and the
\* event is not retired before the store was carried out.
C9_StoreIsTracked == []C9_Tracked /\ [][C9_ReturnStep]_vars

\* The response was returned while the store was still outstanding.
C9_Witness ==
    \E r \in Reqs :
        /\ pc[r] = "responded"
        /\ path[r] = "range"
        /\ put[r].state = "pending"
        /\ ~cache[url[r]].present

(* C10 *)

\* C10: a handled GET request took exactly one path: a cache hit issued no
\* upstream call, a miss with a day issued exactly one, a miss without a day issued
\* exactly 30 calls when variety is "max" and 7 otherwise.
C10_OnePathAndCallCount ==
    \A r \in Reqs :
        Done(r) /\ method[r] = "GET"
        => LET day     == SearchParamsGet(url[r], "day")
               variety == SearchParamsGet(url[r], "variety")
               given   == day # Null /\ day # ""
           IN /\ path[r] \in {"hit", "day", "range"}
              /\ path[r] = "hit" => Len(wire[r]) = 0 /\ results[r] = <<>>
              /\ path[r] = "day" => given /\ Len(wire[r]) = 1 /\ results[r] = <<>>
              /\ path[r] = "range"
                    => /\ ~given
                       /\ Len(wire[r]) = (IF variety = "max" THEN 30 ELSE 7)
                       /\ response[r].shape = "aggregate"
              /\ response[r].shape = "aggregate" => path[r] \in {"hit", "range"}
              /\ response[r].shape \in {"payload", "error"} => path[r] \in {"hit", "day"}

C10_Witness ==
    /\ Done("r1") /\ Done("r2")
    /\ SearchParamsGet(url["r1"], "variety") = "min"
    /\ path["r1"] = "range"
    /\ Len(wire["r1"]) = 7
    /\ SearchParamsGet(url["r2"], "variety") = "max"
    /\ path["r2"] = "range"
    /\ Len(wire["r2"]) = 30

(* C11 *)

\* The body and Cache-Control a path fixes: the payload as upstream sent it and
\* max-age=1800, or {events, meta} and max-age=3600.
C11_ShapeOf(resp) ==
    /\ resp.shape = "payload"
           => resp.meta = NoMeta /\ resp.maxAge = MaxAgeDay /\ resp.status = 200
    /\ resp.shape = "aggregate"
           => ~resp.data.eventsNull /\ resp.maxAge = MaxAgeRange /\ resp.status = 200

\* C11: a single-day miss that parsed the upstream body returns that payload
\* unchanged (duplicates kept, no meta) with max-age=1800; a date-range miss returns
\* {events, meta} with max-age=3600; the response handed to cache.put, the entry
\* stored under the key and a response served from it carry the same body and
\* directive as the response returned.
C11_DirectiveAndShapeByPath ==
    /\ \A r \in Reqs :
           /\ DayDone(r) /\ Parsed(r, 1)
                  => /\ response[r].shape = "payload"
                     /\ response[r].data = wire[r][1].data
                     /\ C11_ShapeOf(response[r])
           /\ RangeDone(r)
                  => /\ response[r].shape = "aggregate"
                     /\ ~response[r].data.eventsNull
                     /\ C11_ShapeOf(response[r])
           /\ put[r].state # "none" => put[r].resp = response[r]
           /\ Done(r) /\ path[r] = "hit" => C11_ShapeOf(response[r])
    /\ \A k \in Queries :
           cache[k].present
               => /\ C11_ShapeOf(cache[k].resp)
                  /\ cache[k].resp.shape = (IF NoDay(k) THEN "aggregate" ELSE "payload")
                  /\ \E r \in Reqs : put[r].state = "done" /\ put[r].key = k
                                      /\ cache[k].resp.maxAge = response[r].maxAge

\* A single-day answer with a repeated idEvent came back as it was and was stored
\* with the single-day directive; a date-range response was stored with its own.
C11_Witness ==
    /\ DayDone("r1") /\ Parsed("r1", 1)
    /\ ~wire["r1"][1].data.eventsNull
    /\ Len(wire["r1"][1].data.events) = 2
    /\ wire["r1"][1].data.events[1].idEvent = wire["r1"][1].data.events[2].idEvent
    /\ response["r1"].data = wire["r1"][1].data
    /\ cache[url["r1"]].present
    /\ cache[url["r1"]].resp = response["r1"]
    /\ response["r1"].maxAge = MaxAgeDay
    /\ RangeDone("r2")
    /\ cache[url["r2"]].present
    /\ cache[url["r2"]].resp = response["r2"]
    /\ response["r2"].maxAge = MaxAgeRange

(* C12 *)

\* The day parameter is absent, empty, or not a calendar date.
C12_AbsentOrInvalidDay(q) == SearchParamsGet(q, "day") \in {Null, "", NotADate}

\* C12 as stated: a GET request whose day parameter is absent, empty or not a valid
\* calendar date is handled by the date-range path and gets no error response.
C12_InvalidDayTakesRangePath ==
    \A r \in Reqs :
        Done(r) /\ method[r] = "GET" /\ C12_AbsentOrInvalidDay(url[r])
        => /\ path[r] \in {"range", "hit"}
           /\ response[r].shape = "aggregate"
           /\ response[r].status = 200

\* C12: a GET request whose day parameter is absent or empty is handled by the
\* date-range path whatever its variety (anything but "max" selects 7 days) and is
\* answered 200; a non-empty day is not validated: on a miss it takes the single-day
\* path with one upstream call, and is answered 500 exactly when that call did not
\* deliver a parseable body.
C12_OnlyMissingDayTakesRangePath ==
    \A r \in Reqs :
        Done(r) /\ method[r] = "GET"
        => LET day     == SearchParamsGet(url[r], "day")
               variety == SearchParamsGet(url[r], "variety")
           IN /\ day \in {Null, ""}
                    => /\ path[r] \in {"range", "hit"}
                       /\ response[r].shape = "aggregate"
                       /\ response[r].status = 200
                       /\ path[r] = "range"
                              => Len(wire[r]) = (IF variety = "max" THEN DaysMax
                                                                    ELSE DaysDefault)
              /\ day \notin {Null, ""}
                    => /\ path[r] \in {"day", "hit"}
                       /\ response[r].shape \in {"payload", "error"}
                       /\ path[r] = "day"
                              => /\ Len(wire[r]) = 1
                                 /\ response[r].status = 500 <=> ~Parsed(r, 1)

\* ?day= went down the date-range path, ?day=notadate went upstream as a single day
\* and came back as a 500.
C12_Witness ==
    /\ SearchParamsGet(url["r1"], "day") = ""
    /\ RangeDone("r1") /\ response["r1"].status = 200
    /\ SearchParamsGet(url["r2"], "day") = NotADate
    /\ DayDone("r2") /\ Len(wire["r2"]) = 1 /\ response["r2"].status = 500

(* C13 *)

\* The two queries hold the same parameters, possibly in a different order.
C13_SameParams(q1, q2) == SortedQuery(q1) = SortedQuery(q2)

\* The step in which request b's cache lookup resolves.
C13_Lookup(b) == pc[b] = "match" /\ pc'[b] # "match"

\* C13 as stated: the key is the URL with its query sorted, so a lookup that finds
\* a fresh entry stored for the same parameters in any order is served from it.
C13_SortedQuerySharesEntry ==
    [][ \A b \in Reqs :
            C13_Lookup(b)
            /\ (\E k \in Queries : C13_SameParams(k, url[b]) /\ Fresh(cache[k], clock))
            => path'[b] = "hit" ]_vars

\* A lookup is a hit exactly when a fresh entry is stored under the request's own
\* URL, parameters in the order the client wrote them.
C13_LookupStep ==
    \A b \in Reqs :
        C13_Lookup(b)
        => /\ path'[b] = "hit" <=> Fresh(cache[url[b]], clock)
           /\ path'[b] = "hit" => response'[b] = cache[url[b]].resp

\* Every write goes under the URL of the request that made it.
C13_KeyIsUrl == \A r \in Reqs : put[r].state # "none" => put[r].key = url[r]

\* C13: the cache key is the request URL as serialised, the query in the order the
\* client wrote it: requests with identical URLs share a key; requests with the
\* same parameters in a different order use different keys and are not served from
\* each other's entries.
C13_KeyKeepsQueryOrder == []C13_KeyIsUrl /\ [][C13_LookupStep]_vars

\* Two requests with the same parameters in the two orders both missed, both called
\* upstream, and left two separate entries in the cache.
C13_Witness ==
    /\ url["r1"] # url["r2"]
    /\ C13_SameParams(url["r1"], url["r2"])
    /\ DayDone("r1") /\ Len(wire["r1"]) = 1
    /\ DayDone("r2") /\ Len(wire["r2"]) = 1
    /\ put["r1"].state = "done" /\ put["r2"].state = "done"
    /\ put["r1"].key # put["r2"].key
    /\ Fresh(cache[url["r1"]], clock) /\ cache[url["r1"]].resp = response["r1"]
    /\ Fresh(cache[url["r2"]], clock) /\ cache[url["r2"]].resp = response["r2"]

(* C14 *)

\* Every entry is the complete response of one request that missed and assembled it
\* from its own upstream answers.
C14_EntryIsOneResponse ==
    \A k \in Queries :
        cache[k].present
        => \E r \in Reqs :
              /\ put[r].state = "done" /\ put[r].key = k
              /\ cache[k].resp = put[r].resp
              /\ put[r].resp = response[r]
              /\ path[r] \in {"day", "range"}
              /\ path[r] = "day" => response[r] = DayResponse(wire[r][1].data)
              /\ path[r] = "range"
                     => response[r] = RangeResponse(results[r], response[r].meta.cacheTime)

\* A request that read an entry stores nothing.
C14_ReaderStoresNothing ==
    \A r \in Reqs : path[r] = "hit" => put[r].state = "none" /\ wire[r] = <<>>

\* A write that completes replaces the entry of its key with the writer's response
\* whatever the key held, and the cache changes in no other step.
C14_WriteStep ==
    /\ \A r \in Reqs :
           put[r].state = "pending" /\ put'[r].state = "done"
           => cache' = [cache EXCEPT ![put[r].key] =
                           [present |-> TRUE, resp |-> put[r].resp, storedAt |-> clock]]
    /\ cache' # cache
           => \E r \in Reqs : put[r].state = "pending" /\ put'[r].state = "done"

\* C14: under every interleaving each key holds at most one entry, always the
\* complete response one request assembled from its own upstream calls; a write
\* replaces the entry whole (last write wins) and no request stores a value computed
\* from an entry it read.
C14_LastWriteWins ==
    [](C14_EntryIsOneResponse /\ C14_ReaderStoresNothing) /\ [][C14_WriteStep]_vars

\* Two requests for the same URL both missed and stored different responses; the
\* entry is the second one's, whole.
C14_Witness ==
    /\ url["r1"] = url["r2"]
    /\ put["r1"].state = "done" /\ put["r2"].state = "done"
    /\ put["r1"].resp # put["r2"].resp
    /\ cache[url["r1"]].resp = put["r2"].resp

(* C15 *)

\* C15: every OPTIONS request is answered by handleOptions alone (no cache lookup,
\* no upstream call, no cache write) with status 200 and an empty body; with Origin,
\* Access-Control-Request-Method and Access-Control-Request-Headers all present the
\* response carries the CORS headers only, and with any of them missing it carries
\* Allow: GET, HEAD, OPTIONS and no CORS headers.
C15_OptionsAnswer ==
    \A r \in Reqs :
        method[r] = "OPTIONS"
        => /\ Done(r) /\ path[r] = "options"
           /\ wire[r] = <<>> /\ put[r].state = "none"
           /\ response[r].status = 200
           /\ response[r].shape = "empty"
           /\ ~response[r].contentType /\ response[r].maxAge = 0
           /\ IF PreflightHeaders \subseteq reqHeaders[r]
              THEN response[r].cors /\ ~response[r].allow
              ELSE response[r].allow /\ ~response[r].cors

\* A preflight with the three headers got the CORS headers; an OPTIONS request
\* lacking only Access-Control-Request-Headers got Allow.
C15_Witness ==
    /\ method["r1"] = "OPTIONS" /\ reqHeaders["r1"] = PreflightHeaders
    /\ response["r1"].cors /\ ~response["r1"].allow
    /\ method["r2"] = "OPTIONS"
    /\ reqHeaders["r2"] = {"Origin", "Access-Control-Request-Method"}
    /\ response["r2"].allow /\ ~response["r2"].cors
    /\ response["r2"].status = 200

(* C16 *)

\* C16 as stated: every response the worker returns, whatever the method and the
\* outcome, includes the three CORS headers.
C16_EveryResponseHasCors ==
    \A r \in Reqs : Done(r) => response[r].cors

\* C16: every response to a request of any method other than OPTIONS (cache hit,
\* single-day success, date-range success, 500 error) and every response to an
\* OPTIONS request that has the three preflight headers includes the three CORS
\* headers; the response to an OPTIONS request lacking one of them carries Allow
\* and no CORS header.
C16_CorsExceptPlainOptions ==
    \A r \in Reqs :
        Done(r)
        => response[r].cors
              <=> (method[r] # "OPTIONS" \/ PreflightHeaders \subseteq reqHeaders[r])

\* The 500 error to a POST went out with the CORS headers and a plain OPTIONS answer
\* without.
C16_Witness ==
    /\ method["r1"] = "POST"
    /\ DayDone("r1") /\ response["r1"].status = 500 /\ response["r1"].cors
    /\ method["r2"] = "OPTIONS" /\ reqHeaders["r2"] = {}
    /\ Done("r2") /\ ~response["r2"].cors

(* C17 *)

\* Some per-date call of request r has not settled yet.
C17_CallPending(r) == \E i \in 1..Len(wire[r]) : Unsettled(wire[r][i])

\* While a call is outstanding the handler has no response, has scheduled no cache
\* write and is still issuing calls or sits at the barrier.
C17_HeldAtBarrier ==
    \A r \in Reqs :
        path[r] = "range" /\ C17_CallPending(r)
        => /\ pc[r] \in {"loop", "fanout"}
           /\ response[r] = NoResp
           /\ put[r].state = "none"

\* The handler leaves the barrier only in a step that starts with every one of its
\* dayCount calls settled.
C17_LeaveStep ==
    \A r \in Reqs :
        pc[r] = "fanout" /\ pc'[r] # "fanout"
        => /\ Len(wire[r]) = daysToFetch(SearchParamsGet(url[r], "variety"))
           /\ ~C17_CallPending(r)
           /\ response'[r] # NoResp

\* C17: in the date-range path handleRequest neither processes results, assembles
\* the response, schedules the cache write nor replies until all dayCount per-date
\* calls have settled; neither the first failure nor the first success lets it go on.
C17_BarrierWaitsForAll == []C17_HeldAtBarrier /\ [][C17_LeaveStep]_vars

\* One call has failed, one has succeeded, others are outstanding, and the handler
\* still waits with nothing assembled.
C17_Witness ==
    /\ path["r1"] = "range" /\ pc["r1"] = "fanout"
    /\ wire["r1"][1].kind = "neterr"
    /\ Delivered("r1", 2)
    /\ wire["r1"][3] = NoAnswer
    /\ response["r1"] = NoResp /\ put["r1"].state = "none"

(* C18 *)

\* Request r waits for an upstream call that has not settled.
C18_Waiting(r) == pc[r] \in {"fanout", "fetch", "json"} /\ C17_CallPending(r)

\* A GET request being handled reaches a terminal state: a response was returned
\* (Respond, or the 500 of Fail).
C18_Terminates == \A r \in Reqs : (pc[r] = "match") ~> Done(r)

\* A request with an unsettled upstream call has not replied.
C18_NoReplyWhilePending ==
    \A r \in Reqs : path[r] \in {"range", "day"} /\ C17_CallPending(r) => ~Done(r)

\* Nothing but the settling of its calls moves a waiting request on: there is no
\* timeout and no cancellation step.
C18_NoTimeoutStep ==
    \A r \in Reqs :
        C18_Waiting(r)
        /\ (pc'[r] \notin {"fanout", "fetch", "json"} \/ response'[r] # response[r])
        => ~C17_CallPending(r)'

\* C18: every GET request that starts handling eventually reaches a terminal state
\* (a response returned, success or the 500 error) provided every cache operation and
\* every upstream call it issued eventually settles; there is no timeout, so as long
\* as one of its upstream calls has not settled the request does not reply.
C18_EventuallyReplies ==
    /\ C18_Terminates
    /\ []C18_NoReplyWhilePending
    /\ [][C18_NoTimeoutStep]_vars

\* A date-range request with a failed call among its 30 was answered and retired.
C18_Witness ==
    /\ pc["r1"] = "finished"
    /\ path["r1"] = "range" /\ Len(wire["r1"]) = DaysMax
    /\ wire["r1"][1].kind = "neterr"
    /\ response["r1"].status = 200

(* C19 *)

\* The dates of request r's slots are consecutive days from the first one on.
C19_Consecutive(r) ==
    /\ \A i \in 1..Len(results[r]) : results[r][i].date = results[r][1].date + (i - 1)
    /\ \A i, j \in 1..Len(results[r]) : i # j => results[r][i].date # results[r][j].date

\* C19 as stated: the dates the date-range path requests are exactly today + i for
\* i = 0..dayCount-1 relative to one value of today per request: pairwise distinct
\* and consecutive, no day requested twice and none skipped, although each loop
\* iteration reads the clock again.
C19_DatesAreConsecutive ==
    \A r \in Reqs : path[r] = "range" => C19_Consecutive(r)

(* C20 *)

\* Every per-date call of request r failed.
C20_AllDatesFailed(r) ==
    /\ Len(wire[r]) > 0
    /\ \A i \in 1..Len(wire[r]) : ~Unsettled(wire[r][i]) /\ ~Parsed(r, i)

\* The empty result of an all-dates-failed aggregation.
C20_EmptyResult(resp) ==
    /\ resp.shape = "aggregate" /\ resp.status = 200
    /\ resp.data.events = <<>>
    /\ resp.meta.daysFetched = 0 /\ resp.meta.totalFetched = 0

\* Every date-range miss schedules the write of its response under its key, an
\* all-dates-failed one its empty result with max-age=3600; a request served from
\* the cache issued no upstream call.
C20_MissAlwaysStores ==
    \A r \in Reqs :
        /\ RangeDone(r)
               => /\ put[r].state \in {"pending", "done"}
                  /\ put[r].key = url[r]
                  /\ put[r].resp = response[r]
                  /\ put[r].resp.maxAge = MaxAgeRange
                  /\ C20_AllDatesFailed(r) => C20_EmptyResult(put[r].resp)
        /\ path[r] = "hit" => wire[r] = <<>>

\* A lookup that finds a stored empty result younger than its max-age is answered
\* with it; no upstream call is issued for that request.
C20_ServeEmptyStep ==
    \A b \in Reqs :
        pc[b] = "match" /\ pc'[b] # "match"
        /\ Fresh(cache[url[b]], clock) /\ C20_EmptyResult(cache[url[b]].resp)
        => /\ path'[b] = "hit"
           /\ pc'[b] = "responded"
           /\ response'[b] = cache[url[b]].resp
           /\ wire'[b] = <<>>

\* C20: the date-range path schedules the cache write on every miss regardless of
\* how many dates succeeded, so an all-dates-failed (empty) result is stored under
\* the request's key with max-age=3600, and a later request with the same key
\* within that time is served the empty result without any upstream call.
C20_EmptyResultIsCached == []C20_MissAlwaysStores /\ [][C20_ServeEmptyStep]_vars

\* The first request's calls all failed and its empty result was stored; the
\* second was served that empty result from the cache and called nobody.
C20_Witness ==
    /\ RangeDone("r1") /\ C20_AllDatesFailed("r1")
    /\ put["r1"].state = "done"
    /\ C20_EmptyResult(cache[url["r1"]].resp)
    /\ url["r2"] = url["r1"]
    /\ Done("r2") /\ path["r2"] = "hit"
    /\ response["r2"] = response["r1"]
    /\ C20_EmptyResult(response["r2"])
    /\ wire["r2"] = <<>>

====
